---- MODULE Spec2Model ----
(***************************************************************************)
(* BioFilterLib: the FIR, IIR (biquad cascade) and LMS filter wrappers and *)
(* the CMSIS-DSP float kernels they call (arm_fir_f32,                     *)
(* arm_biquad_cascade_df1_f32, arm_lms_f32).                               *)
(*                                                                         *)
(* float32_t values are modelled as exact integers: rounding is outside    *)
(* the model (the two reference runs use fixed point, rounded to the       *)
(* nearest millionth).  A buffer is a sequence indexed from 1, so the C    *)
(* cell p[i] is cell i + 1 here.  A store or load beyond the cells that    *)
(* `new` allocated is undefined behaviour: the model records it (firOOB,   *)
(* lmsOOB) and lets the cell read back either as stored or as a foreign    *)
(* value.                                                                  *)
(***************************************************************************)
EXTENDS Integers, Sequences, FiniteSets, TLC

VARIABLES
    firCoeffs,   \* FIRFilter::_coeffs, the caller's array (numTaps = its length)
    firBlock,    \* FIRFilter::_blockSize
    firState,    \* FIRFilter::_state, numTaps + blockSize - 1 cells
    firIn,       \* every sample fed to the FIR instance so far
    firOut,      \* every sample the FIR instance has returned or written so far
    firOOB,      \* a call has touched _state beyond its allocation
    firLast,     \* the last FIR call: <<operation, number of samples>>
    firMade,     \* the FIRFilter constructor call: its arguments and outcome
    iirCoeffs,   \* IIRFilter::_coeffs, 5 per stage
    iirState,    \* IIRFilter::_state, 4 per stage
    iirIn,       \* every sample fed to the IIR instance so far
    iirOut,      \* every sample the IIR instance has produced so far
    iirLast,     \* the last IIR call: <<operation, number of samples>>
    iirMade,     \* the IIRFilter constructor call: its arguments and outcome
    lmsCoeffs,   \* LMSFilter::_coeffs, the caller's (mutable) array
    lmsState,    \* LMSFilter::_state, numTaps cells
    lmsMu,       \* LMSFilter::_mu, what getMu() returns
    lmsInstMu,   \* LMSFilter::_lmsInstance.mu, what arm_lms_f32 uses
    lmsBlock,    \* LMSFilter::_blockSize
    lmsCount,    \* number of samples the LMS instance has processed
    lmsOOB,      \* a call has touched _state beyond its allocation
    lmsCall,     \* the last LMS call: its kind, arguments, results and per-sample log
    lmsMade,     \* the LMSFilter constructor call: its arguments and outcome
    ownObjects,  \* filter objects by name: the class and the _state pointer of each
    ownBuffers,  \* every array a constructor got from new[]: how often it was released
    ownCopied,   \* how often a filter object has been copied or assigned
    ecgCleanSignal,  \* LMS_Example: the clean ECG table setup() converts
    ecgSampleIndex,  \* LMS_Example: the cell of the table loop() reads next
    sampleCounter    \* LMS_Example: the number of samples loop() has generated

firVars == <<firCoeffs, firBlock, firState, firIn, firOut, firOOB, firLast, firMade>>
iirVars == <<iirCoeffs, iirState, iirIn, iirOut, iirLast, iirMade>>
lmsVars == <<lmsCoeffs, lmsState, lmsMu, lmsInstMu, lmsBlock, lmsCount, lmsOOB, lmsCall,
             lmsMade>>
ownVars == <<ownObjects, ownBuffers, ownCopied>>
exampleVars == <<ecgCleanSignal, ecgSampleIndex, sampleCounter>>
vars == <<firVars, iirVars, lmsVars, ownVars, exampleVars>>

----------------------------------------------------------------------------
(* Bounds of the model and the input domains.                              *)

\* Longest sample stream fed to one instance.
MaxLen == 4
\* Longest block handed to one processBuffer call.
MaxBlock == 3

\* Sample values.
Samples == {-2, 0, 1}
\* What a cell beyond the allocation reads back as: the value stored there
\* (Kept), or a foreign value another owner of that memory put there.
Kept == <<>>
Foreign == {<<7>>}
\* Coefficient arrays handed to the FIR constructor (symmetric and not).
FirCoeffSets == {<<2>>, <<1, 2>>, <<3, 3>>, <<1, 2, 3>>, <<1, -2, 1>>}
\* Block sizes handed to the constructors.
BlockSizes == {1, 2}
\* Longest sample stream fed to the LMS instance.
MaxLmsLen == 2
\* Input and reference sample values of the LMS instance.
LmsSamples == {-1, 1}
LmsRefs == {0, 1}
\* Step sizes handed to the LMS constructor and to setMu.
InitMus == {1}
Mus == {0, 2}
\* Coefficient arrays the caller hands to the LMS constructor.
LmsCoeffSets == {<<1>>, <<1, -1>>}
\* Coefficient arrays handed to resetCoefficients.
LmsResetSets == {<<2>>, <<1, 2>>}
\* Coefficient arrays handed to the IIR constructor, {b0, b1, b2, a1, a2}
\* per stage: one stage and two stages.
IirCoeffSets == {<<1, 0, 0, 1, 0>>,
                 <<2, 1, -1, 0, 1>>,
                 <<1, 1, 0, 1, 0,  2, 0, 1, 0, -1>>,
                 <<1, -1, 1, -1, 1,  1, 2, 0, 1, 0>>}

Uninitialised(n) == [i \in 1..n |-> 1]
\* new float32_t[n](): n value-initialised cells.
ZeroSeq(n) == [i \in 1..n |-> 0]

\* An int n converted to uint32_t wraps: a negative n becomes 2^32 + n.
Wraps(n) == n < 0

\* new float32_t[(uint32_t) n] cannot be satisfied: the wrapped count is
\* more cells than the address space holds.
AllocFails(n) == Wraps(n)

\* A constructor call that was given arguments and got an instance, one that
\* ended in a failed allocation, and no constructor call at all
\* (count is numTaps, or numStages for an IIR instance).
Made(coeffs, count, blockSize, outcome) ==
    [coeffs |-> coeffs, count |-> count, blockSize |-> blockSize,
     outcome |-> outcome]
Unmade == [outcome |-> "none"]

\* The engine has an instance: its methods can be called.
FirLive == firMade.outcome = "instance"
IirLive == iirMade.outcome = "instance"
LmsLive == lmsMade.outcome = "instance"

\* All sequences over S of length exactly n.
SeqsOfLen(S, n) == [1..n -> S]

----------------------------------------------------------------------------
(* Memory cells.                                                           *)

\* A store of v to cell i of a buffer with alloc cells: in bounds the cell
\* holds v; beyond them it holds v or a foreign value, as clob says.
Stored(i, alloc, v, clob) == IF i <= alloc \/ clob = Kept THEN v ELSE clob[1]

\* mem with cell i set to v (mem is a function on 1..n, i may be n + 1 or more).
Poke(mem, i, v) ==
    [j \in (DOMAIN mem) \cup {i} |-> IF j = i THEN v ELSE mem[j]]

----------------------------------------------------------------------------
(* arm_fir_f32 and the FIRFilter wrapper.                                  *)

\* Inner multiply-accumulate loop: acc += *px++ * *pb++, cnt times.
RECURSIVE MacLoop(_, _, _, _, _, _)
MacLoop(mem, coeffs, px, pb, cnt, acc) ==
    IF cnt = 0 THEN acc
    ELSE MacLoop(mem, coeffs, px + 1, pb + 1, cnt - 1, acc + mem[px] * coeffs[pb])

\* The sample loop of arm_fir_f32: for sample n (from 0) the input goes to
\* pState[numTaps - 1 + n], and the output is the dot product of
\* pState[n .. n + numTaps - 1] with pCoeffs[0 .. numTaps - 1].
RECURSIVE FirSampleLoop(_, _, _, _, _, _, _)
FirSampleLoop(mem, coeffs, alloc, src, n, out, clob) ==
    IF n = Len(src) THEN [mem |-> mem, out |-> out]
    ELSE LET T    == Len(coeffs)
             mem1 == Poke(mem, T + n, Stored(T + n, alloc, src[n + 1], clob))
             acc  == MacLoop(mem1, coeffs, n + 1, 1, T, 0)
         IN  FirSampleLoop(mem1, coeffs, alloc, src, n + 1, Append(out, acc), clob)

\* The tail of arm_fir_f32 and of arm_lms_f32: the last numTaps - 1 samples
\* are copied to the start of the state buffer, cell by cell.
RECURSIVE TailCopy(_, _, _, _)
TailCopy(mem, from, i, cnt) ==
    IF cnt = 0 THEN mem
    ELSE TailCopy([mem EXCEPT ![i] = mem[from]], from + 1, i + 1, cnt - 1)

\* arm_fir_f32(S, pSrc, pDst, blockSize) on a state buffer of Len(state)
\* allocated cells.  Result: the state buffer, the outputs, and whether a
\* cell beyond the allocation was touched.
arm_fir_f32(coeffs, state, src, clob) ==
    LET T     == Len(coeffs)
        alloc == Len(state)
        loop  == FirSampleLoop(state, coeffs, alloc, src, 0, <<>>, clob)
        mem2  == TailCopy(loop.mem, Len(src) + 1, 1, T - 1)
    IN  [state |-> [i \in 1..alloc |-> mem2[i]],
         out   |-> loop.out,
         oob   |-> T + Len(src) - 1 > alloc]

\* FIRFilter::FIRFilter: new float32_t[numTaps + blockSize - 1]().
FirStateSize(numTaps, blockSize) == numTaps + blockSize - 1

\* FIRFilter::processSample(input): arm_fir_f32 with one sample.
FIRprocessSample(coeffs, state, input) ==
    arm_fir_f32(coeffs, state, <<input>>, Kept)

FIRprocessBufferAtLeastOnce(coeffs, state, inputArray, clob) ==
    arm_fir_f32(coeffs, state,
                IF inputArray = <<>> THEN <<0>> ELSE inputArray, clob)
FIRprocessBufferRegrown(coeffs, state, inputArray, clob) ==
    LET need == Len(coeffs) + Len(inputArray) - 1
        r    == arm_fir_f32(coeffs, state \o ZeroSeq(need - Len(state)),
                            inputArray, Kept)
    IN  [state |-> r.state, out |-> r.out, oob |-> FALSE]
\* FIRFilter::processBuffer(inputArray, outputArray, length).
FIRprocessBuffer(coeffs, state, inputArray, clob) ==
    arm_fir_f32(coeffs, state, inputArray, clob)

FirInit ==
    /\ firCoeffs \in FirCoeffSets
    /\ firBlock \in BlockSizes
    /\ firState = ZeroSeq(FirStateSize(Len(firCoeffs), firBlock))
    /\ firIn = <<>>
    /\ firOut = <<>>
    /\ firOOB = FALSE
    /\ firLast = <<"construct", 0>>
    /\ firMade = Made("array", Len(firCoeffs), firBlock, "instance")

FirProcessSample ==
    /\ FirLive
    /\ Len(firIn) < MaxLen
    /\ \E x \in Samples :
         LET r == FIRprocessSample(firCoeffs, firState, x)
         IN  /\ firState' = r.state
             /\ firIn' = Append(firIn, x)
             /\ firOut' = Append(firOut, r.out[1])
             /\ firOOB' = (firOOB \/ r.oob)
    /\ firLast' = <<"processSample", 1>>
    /\ UNCHANGED <<firCoeffs, firBlock, firMade, iirVars, lmsVars, ownVars, exampleVars>>

FirProcessBuffer ==
    \E n \in 0..MaxBlock :
      /\ FirLive
      /\ Len(firIn) + n <= MaxLen
      /\ \E xs \in SeqsOfLen(Samples, n) :
         \E clob \in (IF Len(firCoeffs) + n - 1 > Len(firState)
                      THEN {Kept} \cup Foreign ELSE {Kept}) :
           LET r == FIRprocessBuffer(firCoeffs, firState, xs, clob)
           IN  /\ firState' = r.state
               /\ firIn' = firIn \o xs
               /\ firOut' = firOut \o r.out
               /\ firOOB' = (firOOB \/ r.oob)
      /\ firLast' = <<"processBuffer", n>>
      /\ UNCHANGED <<firCoeffs, firBlock, firMade, iirVars, lmsVars, ownVars, exampleVars>>

FirNext == FirProcessSample \/ FirProcessBuffer

\* The stream xs fed one sample at a time through processSample, from the
\* given state: the state reached and the outputs returned.
RECURSIVE FirBySamples(_, _, _, _, _)
FirBySamples(coeffs, state, xs, i, out) ==
    IF i > Len(xs) THEN [state |-> state, out |-> out]
    ELSE LET r == FIRprocessSample(coeffs, state, xs[i])
         IN  FirBySamples(coeffs, r.state, xs, i + 1, Append(out, r.out[1]))

\* The delay line proper: the numTaps - 1 past samples the next call reads.
FirHistory(coeffs, state) == SubSeq(state, 1, Len(coeffs) - 1)

----------------------------------------------------------------------------
(* arm_biquad_cascade_df1_f32 and the IIRFilter wrapper.                   *)

\* The five coefficients of stage s (from 1): pCoeffs advances by 5 per stage.
StageCoeffsStuck(coeffs, s) == SubSeq(coeffs, 1, 5)
StageCoeffs(coeffs, s) == SubSeq(coeffs, 5 * (s - 1) + 1, 5 * s)

\* The four state cells of stage s: {x[n-1], x[n-2], y[n-1], y[n-2]}.
StageState(state, s) == SubSeq(state, 4 * (s - 1) + 1, 4 * s)

\* acc = b0 * Xn + b1 * Xn1 + b2 * Xn2 + a1 * Yn1 + a2 * Yn2
BiquadAcc(c, Xn, Xn1, Xn2, Yn1, Yn2) ==
    c[1] * Xn + c[2] * Xn1 + c[3] * Xn2 + c[4] * Yn1 + c[5] * Yn2

\* The sample loop of one stage, on the registers reg = <<Xn1, Xn2, Yn1, Yn2>>
\* loaded from the stage's state cells: every sample of the block goes
\* through the stage before the next stage starts.
RECURSIVE BiquadSampleLoop(_, _, _, _, _)
BiquadSampleLoop(c, reg, in, i, out) ==
    IF i > Len(in) THEN [reg |-> reg, out |-> out]
    ELSE LET Xn  == in[i]
             acc == BiquadAcc(c, Xn, reg[1], reg[2], reg[3], reg[4])
         IN  BiquadSampleLoop(c, <<Xn, reg[1], acc, reg[3]>>, in, i + 1,
                              Append(out, acc))

\* The registers are written back to the stage's four state cells when the
\* block is done.
StageWriteBackLost(state, s, reg) == state
StageWriteBack(state, s, reg) ==
    [i \in 1..Len(state) |->
        IF i > 4 * (s - 1) /\ i <= 4 * s THEN reg[i - 4 * (s - 1)] ELSE state[i]]

\* The stage loop (do ... while (--stage)): stage s filters the block in,
\* the output of stage s - 1 (pIn = pDst), and stores it in pDst.
RECURSIVE BiquadStageLoop(_, _, _, _, _)
BiquadStageLoop(coeffs, state, numStages, s, in) ==
    LET r      == BiquadSampleLoop(StageCoeffs(coeffs, s), StageState(state, s),
                                   in, 1, <<>>)
        state1 == StageWriteBack(state, s, r.reg)
    IN  IF s >= numStages THEN [state |-> state1, out |-> r.out]
        ELSE BiquadStageLoop(coeffs, state1, numStages, s + 1, r.out)

\* arm_biquad_cascade_df1_f32(S, pSrc, pDst, blockSize).
arm_biquad_cascade_df1_f32(coeffs, state, numStages, src) ==
    BiquadStageLoop(coeffs, state, numStages, 1, src)

\* IIRFilter::IIRFilter: new float32_t[4 * numStages]().
IirStateSize(numStages) == 4 * numStages

\* IIRFilter::_numStages of the instance built on a coefficient array.
NumStages(coeffs) == Len(coeffs) \div 5

\* IIRFilter::processSample(input).
IIRprocessSample(coeffs, state, numStages, input) ==
    arm_biquad_cascade_df1_f32(coeffs, state, numStages, <<input>>)

\* IIRFilter::processBuffer(inputArray, outputArray, length).
IIRprocessBuffer(coeffs, state, numStages, inputArray) ==
    arm_biquad_cascade_df1_f32(coeffs, state, numStages, inputArray)

IirInit ==
    /\ iirCoeffs \in IirCoeffSets
    /\ iirState = ZeroSeq(IirStateSize(NumStages(iirCoeffs)))
    /\ iirIn = <<>>
    /\ iirOut = <<>>
    /\ iirLast = <<"construct", 0>>
    /\ iirMade = Made("array", NumStages(iirCoeffs), 1, "instance")

IirProcessSample ==
    /\ IirLive
    /\ Len(iirIn) < MaxLen
    /\ \E x \in Samples :
         LET r == IIRprocessSample(iirCoeffs, iirState, NumStages(iirCoeffs), x)
         IN  /\ iirState' = r.state
             /\ iirIn' = Append(iirIn, x)
             /\ iirOut' = Append(iirOut, r.out[1])
    /\ iirLast' = <<"processSample", 1>>
    /\ UNCHANGED <<iirCoeffs, iirMade, firVars, lmsVars, ownVars, exampleVars>>

IirProcessBuffer ==
    \E n \in 0..MaxBlock :
      /\ IirLive
      /\ Len(iirIn) + n <= MaxLen
      /\ \E xs \in SeqsOfLen(Samples, n) :
           LET r == IIRprocessBuffer(iirCoeffs, iirState, NumStages(iirCoeffs), xs)
           IN  /\ iirState' = r.state
               /\ iirIn' = iirIn \o xs
               /\ iirOut' = iirOut \o r.out
      /\ iirLast' = <<"processBuffer", n>>
      /\ UNCHANGED <<iirCoeffs, iirMade, firVars, lmsVars, ownVars, exampleVars>>

IirNext == IirProcessSample \/ IirProcessBuffer

\* The stream xs fed one sample at a time through processSample.
RECURSIVE IirBySamples(_, _, _, _, _)
IirBySamples(coeffs, state, xs, i, out) ==
    IF i > Len(xs) THEN [state |-> state, out |-> out]
    ELSE LET r == IIRprocessSample(coeffs, state, NumStages(coeffs), xs[i])
         IN  IirBySamples(coeffs, r.state, xs, i + 1, Append(out, r.out[1]))

----------------------------------------------------------------------------
(* arm_lms_f32 and the LMSFilter wrapper.                                  *)

\* *pStateCurnt++ = *pSrc++ : sample n (from 0) of the block goes to
\* pState[numTaps - 1 + n] before anything is computed from it.
LmsStoreSampleLate(mem, T, n, alloc, x, clob) == mem
LmsStoreSample(mem, T, n, alloc, x, clob) ==
    Poke(mem, T + n, Stored(T + n, alloc, x, clob))

\* The numTaps cells pState[n .. n + numTaps - 1] that px walks over.
LmsWindow(mem, T, n) == [k \in 1..T |-> mem[n + k]]

\* e = *pRef++ - acc
LmsErrorSwapped(d, acc) == acc - d
LmsError(d, acc) == d - acc

\* Coefficient update loop: w = e * mu; *pb += w * (*px++), numTaps times.
LmsUpdate(coeffs, win, mu, e) ==
    [k \in 1..Len(coeffs) |-> coeffs[k] + (e * mu) * win[k]]

\* The sample loop of arm_lms_f32.  log keeps, per sample, the weights and
\* the cells the output was computed from, and what was computed.
RECURSIVE LmsSampleLoop(_, _, _, _, _, _, _, _, _, _, _)
LmsSampleLoop(mem, coeffs, mu, alloc, src, ref, n, out, err, log, clob) ==
    IF n = Len(src)
    THEN [mem |-> mem, coeffs |-> coeffs, out |-> out, err |-> err, log |-> log]
    ELSE LET T       == Len(coeffs)
             mem1    == LmsStoreSample(mem, T, n, alloc, src[n + 1], clob)
             acc     == MacLoop(mem1, coeffs, n + 1, 1, T, 0)
             e       == LmsError(ref[n + 1], acc)
             win     == LmsWindow(mem1, T, n)
             coeffs1 == LmsUpdate(coeffs, win, mu, e)
             entry   == [x |-> src[n + 1], d |-> ref[n + 1], w0 |-> coeffs,
                         win |-> win, mu |-> mu, y |-> acc, e |-> e,
                         w1 |-> coeffs1]
         IN  LmsSampleLoop(mem1, coeffs1, mu, alloc, src, ref, n + 1,
                           Append(out, acc), Append(err, e), Append(log, entry), clob)

\* arm_lms_f32(S, pSrc, pRef, pOut, pErr, blockSize) on a state buffer of
\* Len(state) allocated cells and the caller's coefficient array.
arm_lms_f32(coeffs, state, mu, src, ref, clob) ==
    LET T     == Len(coeffs)
        alloc == Len(state)
        loop  == LmsSampleLoop(state, coeffs, mu, alloc, src, ref, 0,
                               <<>>, <<>>, <<>>, clob)
        mem2  == TailCopy(loop.mem, Len(src) + 1, 1, T - 1)
    IN  [state  |-> [i \in 1..alloc |-> mem2[i]],
         coeffs |-> loop.coeffs,
         out    |-> loop.out,
         err    |-> loop.err,
         log    |-> loop.log,
         oob    |-> Len(src) > 0 /\ T + Len(src) - 1 > alloc]

\* LMSFilter::LMSFilter: new float32_t[numTaps]().
LmsStateSize(numTaps) == numTaps

\* arm_lms_init_f32 clears numTaps + blockSize - 1 cells of the state buffer:
\* whether that goes beyond the cells the constructor allocated.
LmsInitOOB(numTaps, blockSize) ==
    numTaps + blockSize - 1 > LmsStateSize(numTaps)

\* The count of cells arm_lms_init_f32 clears is unsigned: with numTaps = 0
\* and blockSize = 0 it wraps to 2^32 - 1, the clearing runs through the
\* whole address space and the process is stopped inside the constructor.
LmsInitFaults(numTaps, blockSize) == Wraps(numTaps + blockSize - 1)

\* LMSFilter::processSample(input, reference, output, error).
LMSprocessSample(coeffs, state, mu, input, reference) ==
    arm_lms_f32(coeffs, state, mu, <<input>>, <<reference>>, Kept)

\* LMSFilter::processBuffer(inputArray, referenceArray, outputArray,
\* errorArray, length).
LMSprocessBuffer(coeffs, state, mu, inputArray, referenceArray, clob) ==
    arm_lms_f32(coeffs, state, mu, inputArray, referenceArray, clob)

LMSresetCoefficientsKeepState(coeffs, state, newCoeffs) ==
    [coeffs |-> [i \in 1..Len(coeffs) |->
                    IF newCoeffs # <<>> THEN newCoeffs[i] ELSE 0],
     state  |-> state]
LMSresetCoefficientsKeepWeights(coeffs, state, newCoeffs) ==
    [coeffs |-> IF newCoeffs # <<>> THEN newCoeffs ELSE coeffs,
     state  |-> [i \in 1..Len(state) |-> 0]]
\* LMSFilter::resetCoefficients(newCoeffs): newCoeffs is <<>> for nullptr.
LMSresetCoefficients(coeffs, state, newCoeffs) ==
    [coeffs |-> [i \in 1..Len(coeffs) |->
                    IF newCoeffs # <<>> THEN newCoeffs[i] ELSE 0],
     state  |-> [i \in 1..Len(state) |-> IF i <= Len(coeffs) THEN 0 ELSE state[i]]]

\* What the instance was before a call.
LmsPre == [coeffs |-> lmsCoeffs, state |-> lmsState, mu |-> lmsInstMu,
           getMu |-> lmsMu, block |-> lmsBlock]

LmsInit ==
    /\ lmsCoeffs \in LmsCoeffSets
    /\ lmsBlock \in BlockSizes
    /\ lmsMu \in InitMus
    /\ lmsInstMu = lmsMu
    /\ lmsState = ZeroSeq(LmsStateSize(Len(lmsCoeffs)))
    /\ lmsCount = 0
    /\ lmsOOB = LmsInitOOB(Len(lmsCoeffs), lmsBlock)
    /\ lmsCall = [op |-> "construct", pre |-> LmsPre, xs |-> <<>>, ds |-> <<>>,
                  ys |-> <<>>, es |-> <<>>, log |-> <<>>, arg |-> <<>>,
                  clob |-> Kept]
    /\ lmsMade = Made("array", Len(lmsCoeffs), lmsBlock, "instance")

LmsProcessSample ==
    /\ LmsLive
    /\ lmsCount < MaxLmsLen
    /\ \E x \in LmsSamples, d \in LmsRefs :
         LET r == LMSprocessSample(lmsCoeffs, lmsState, lmsInstMu, x, d)
         IN  /\ lmsCoeffs' = r.coeffs
             /\ lmsState' = r.state
             /\ lmsOOB' = (lmsOOB \/ r.oob)
             /\ lmsCall' = [op |-> "processSample", pre |-> LmsPre,
                            xs |-> <<x>>, ds |-> <<d>>, ys |-> r.out,
                            es |-> r.err, log |-> r.log, arg |-> <<>>,
                            clob |-> Kept]
    /\ lmsCount' = lmsCount + 1
    /\ UNCHANGED <<lmsMu, lmsInstMu, lmsBlock, lmsMade, firVars, iirVars, ownVars, exampleVars>>

LmsProcessBuffer ==
    \E n \in 0..MaxBlock :
      /\ LmsLive
      /\ lmsCount + n <= MaxLmsLen
      /\ \E xs \in SeqsOfLen(LmsSamples, n), ds \in SeqsOfLen(LmsRefs, n) :
         \E clob \in (IF n > 0 /\ Len(lmsCoeffs) + n - 1 > Len(lmsState)
                      THEN {Kept} \cup Foreign ELSE {Kept}) :
           LET r == LMSprocessBuffer(lmsCoeffs, lmsState, lmsInstMu, xs, ds, clob)
           IN  /\ lmsCoeffs' = r.coeffs
               /\ lmsState' = r.state
               /\ lmsOOB' = (lmsOOB \/ r.oob)
               /\ lmsCall' = [op |-> "processBuffer", pre |-> LmsPre,
                              xs |-> xs, ds |-> ds, ys |-> r.out,
                              es |-> r.err, log |-> r.log, arg |-> <<>>,
                              clob |-> clob]
      /\ lmsCount' = lmsCount + n
      /\ UNCHANGED <<lmsMu, lmsInstMu, lmsBlock, lmsMade, firVars, iirVars, ownVars, exampleVars>>

LmsSetMuInstanceOnly ==
    \E newMu \in Mus :
      /\ LmsLive
      /\ lmsInstMu' = newMu
      /\ lmsCall' = [op |-> "setMu", pre |-> LmsPre, xs |-> <<>>, ds |-> <<>>,
                     ys |-> <<>>, es |-> <<>>, log |-> <<>>, arg |-> <<newMu>>,
                     clob |-> Kept]
      /\ UNCHANGED <<lmsMu, lmsCoeffs, lmsState, lmsBlock, lmsCount, lmsOOB,
                     lmsMade, firVars, iirVars, ownVars, exampleVars>>
LmsSetMuWrapperOnly ==
    \E newMu \in Mus :
      /\ LmsLive
      /\ lmsMu' = newMu
      /\ lmsCall' = [op |-> "setMu", pre |-> LmsPre, xs |-> <<>>, ds |-> <<>>,
                     ys |-> <<>>, es |-> <<>>, log |-> <<>>, arg |-> <<newMu>>,
                     clob |-> Kept]
      /\ UNCHANGED <<lmsInstMu, lmsCoeffs, lmsState, lmsBlock, lmsCount, lmsOOB,
                     lmsMade, firVars, iirVars, ownVars, exampleVars>>
\* LMSFilter::setMu(newMu): _mu = newMu; _lmsInstance.mu = newMu.
LmsSetMu ==
    \E newMu \in Mus :
      /\ LmsLive
      /\ lmsMu' = newMu
      /\ lmsInstMu' = newMu
      /\ lmsCall' = [op |-> "setMu", pre |-> LmsPre, xs |-> <<>>, ds |-> <<>>,
                     ys |-> <<>>, es |-> <<>>, log |-> <<>>, arg |-> <<newMu>>,
                     clob |-> Kept]
      /\ UNCHANGED <<lmsCoeffs, lmsState, lmsBlock, lmsCount, lmsOOB,
                     lmsMade, firVars, iirVars, ownVars, exampleVars>>

LmsResetCoefficients ==
    \E newCoeffs \in {<<>>} \cup {c \in LmsResetSets : Len(c) = Len(lmsCoeffs)} :
      LET r == LMSresetCoefficients(lmsCoeffs, lmsState, newCoeffs)
      IN  /\ LmsLive
          /\ lmsCoeffs' = r.coeffs
          /\ lmsState' = r.state
          /\ lmsCall' = [op |-> "resetCoefficients", pre |-> LmsPre, xs |-> <<>>,
                         ds |-> <<>>, ys |-> <<>>, es |-> <<>>, log |-> <<>>,
                         arg |-> newCoeffs, clob |-> Kept]
          /\ UNCHANGED <<lmsMu, lmsInstMu, lmsBlock, lmsCount, lmsOOB,
                         lmsMade, firVars, iirVars, ownVars, exampleVars>>

LmsNext ==
    LmsProcessSample \/ LmsProcessBuffer \/ LmsSetMu \/ LmsResetCoefficients

\* The block xs, ds fed one sample at a time through processSample.
RECURSIVE LmsBySamples(_, _, _, _, _, _, _, _)
LmsBySamples(coeffs, state, mu, xs, ds, i, out, err) ==
    IF i > Len(xs)
    THEN [coeffs |-> coeffs, state |-> state, out |-> out, err |-> err]
    ELSE LET r == LMSprocessSample(coeffs, state, mu, xs[i], ds[i])
         IN  LmsBySamples(r.coeffs, r.state, mu, xs, ds, i + 1,
                          Append(out, r.out[1]), Append(err, r.err[1]))

\* The delay line proper: the numTaps - 1 past samples the next call reads.
LmsHistory(coeffs, state) == SubSeq(state, 1, Len(coeffs) - 1)

----------------------------------------------------------------------------
(* Idle engines: a specification drives one engine and leaves the others   *)
(* unconstructed.                                                          *)

IirIdle ==
    /\ iirCoeffs = <<>> /\ iirState = <<>> /\ iirIn = <<>> /\ iirOut = <<>>
    /\ iirLast = <<"none", 0>> /\ iirMade = Unmade
LmsIdle ==
    /\ lmsCoeffs = <<>> /\ lmsState = <<>> /\ lmsMu = 0 /\ lmsInstMu = 0
    /\ lmsBlock = 0 /\ lmsCount = 0 /\ lmsOOB = FALSE
    /\ lmsCall = [op |-> "none"] /\ lmsMade = Unmade
FirIdle ==
    /\ firCoeffs = <<>> /\ firBlock = 0 /\ firState = <<>>
    /\ firIn = <<>> /\ firOut = <<>> /\ firOOB = FALSE
    /\ firLast = <<"none", 0>> /\ firMade = Unmade

\* No filter object is followed by name.
OwnIdle == ownObjects = <<>> /\ ownBuffers = <<>> /\ ownCopied = 0
\* LMS_Example is not running.
ExampleIdle == ecgCleanSignal = <<>> /\ ecgSampleIndex = 0 /\ sampleCounter = 0

InitFIR == FirInit /\ IirIdle /\ LmsIdle /\ OwnIdle /\ ExampleIdle
\* The FIR instance under any mix of processSample and processBuffer calls.
SpecFIR == InitFIR /\ [][FirNext]_vars
\* The FIR instance fed one sample at a time.
SpecFIRSample == InitFIR /\ [][FirProcessSample]_vars

InitIIR == IirInit /\ FirIdle /\ LmsIdle /\ OwnIdle /\ ExampleIdle
\* The IIR instance under any mix of processSample and processBuffer calls.
SpecIIR == InitIIR /\ [][IirNext]_vars

InitLMS == LmsInit /\ FirIdle /\ IirIdle /\ OwnIdle /\ ExampleIdle
\* The LMS instance under any sequence of processSample, processBuffer,
\* setMu and resetCoefficients calls.
SpecLMS == InitLMS /\ [][LmsNext]_vars

----------------------------------------------------------------------------
(* Construction and destruction.  The constructors take whatever the       *)
(* caller passes: a null coefficient pointer (<<>> here), a count of 0, a  *)
(* block size of 0.                                                        *)

\* Block sizes a caller may pass, the invalid 0 included.
CtorBlockSizes == {0} \cup BlockSizes
\* Tap or stage counts a caller may pass along with the array c (n is what
\* the array holds): 0, or n, or 2 with a null pointer.
CtorCounts(c, n) == IF c = <<>> THEN {0, 2} ELSE {0, n}
\* The program is running: no constructor call has ended in a fault.
Running ==
    /\ firMade.outcome # "fault" /\ iirMade.outcome # "fault"
    /\ lmsMade.outcome # "fault"

\* How the constructor record names the coefficient argument.
CoeffsArg(c) == IF c = <<>> THEN "null" ELSE "array"

\* FIRFilter::FIRFilter(coeffs, numTaps, blockSize): no argument is checked;
\* the state buffer is new float32_t[numTaps + blockSize - 1]().
FIRFilterNew(coeffs, numTaps, blockSize) ==
    IF AllocFails(FirStateSize(numTaps, blockSize))
    THEN [outcome |-> "bad_alloc"]
    ELSE [outcome |-> "instance", coeffs |-> coeffs,
          state |-> ZeroSeq(FirStateSize(numTaps, blockSize))]

\* IIRFilter::IIRFilter(coeffs, numStages, blockSize): no argument is
\* checked; the state buffer is new float32_t[4 * numStages]().
IIRFilterNew(coeffs, numStages, blockSize) ==
    IF AllocFails(IirStateSize(numStages))
    THEN [outcome |-> "bad_alloc"]
    ELSE [outcome |-> "instance", coeffs |-> coeffs,
          state |-> ZeroSeq(IirStateSize(numStages))]

\* LMSFilter::LMSFilter(coeffs, numTaps, mu, blockSize): no argument is
\* checked; the state buffer is new float32_t[numTaps](), and
\* arm_lms_init_f32 then clears numTaps + blockSize - 1 cells of it.
LMSFilterNew(coeffs, numTaps, mu, blockSize) ==
    IF AllocFails(LmsStateSize(numTaps))
    THEN [outcome |-> "bad_alloc"]
    ELSE IF LmsInitFaults(numTaps, blockSize)
    THEN [outcome |-> "fault"]
    ELSE [outcome |-> "instance", coeffs |-> coeffs,
          state |-> ZeroSeq(LmsStateSize(numTaps)), mu |-> mu,
          oob |-> LmsInitOOB(numTaps, blockSize)]

FirConstruct ==
    /\ Running /\ firMade = Unmade
    /\ \E c \in FirCoeffSets \cup {<<>>}, B \in CtorBlockSizes :
       \E T \in CtorCounts(c, Len(c)) :
         LET r == FIRFilterNew(c, T, B)
         IN  IF r.outcome = "instance"
             THEN /\ firCoeffs' = r.coeffs
                  /\ firBlock' = B
                  /\ firState' = r.state
                  /\ firLast' = <<"construct", 0>>
                  /\ firMade' = Made(CoeffsArg(c), T, B, "instance")
                  /\ UNCHANGED <<firIn, firOut, firOOB>>
             ELSE /\ firMade' = Made(CoeffsArg(c), T, B, r.outcome)
                  /\ UNCHANGED <<firCoeffs, firBlock, firState, firIn, firOut,
                                 firOOB, firLast>>
    /\ UNCHANGED <<iirVars, lmsVars, ownVars, exampleVars>>

\* FIRFilter::~FIRFilter: delete[] _state.
FirDestroy ==
    /\ Running /\ firMade.outcome = "instance"
    /\ firCoeffs' = <<>> /\ firBlock' = 0 /\ firState' = <<>>
    /\ firIn' = <<>> /\ firOut' = <<>> /\ firOOB' = FALSE
    /\ firLast' = <<"none", 0>> /\ firMade' = Unmade
    /\ UNCHANGED <<iirVars, lmsVars, ownVars, exampleVars>>

IirConstruct ==
    /\ Running /\ iirMade = Unmade
    /\ \E c \in IirCoeffSets \cup {<<>>}, B \in CtorBlockSizes :
       \E S \in CtorCounts(c, NumStages(c)) :
         LET r == IIRFilterNew(c, S, B)
         IN  IF r.outcome = "instance"
             THEN /\ iirCoeffs' = r.coeffs
                  /\ iirState' = r.state
                  /\ iirLast' = <<"construct", 0>>
                  /\ iirMade' = Made(CoeffsArg(c), S, B, "instance")
                  /\ UNCHANGED <<iirIn, iirOut>>
             ELSE /\ iirMade' = Made(CoeffsArg(c), S, B, r.outcome)
                  /\ UNCHANGED <<iirCoeffs, iirState, iirIn, iirOut, iirLast>>
    /\ UNCHANGED <<firVars, lmsVars, ownVars, exampleVars>>

\* IIRFilter::~IIRFilter: delete[] _state.
IirDestroy ==
    /\ Running /\ iirMade.outcome = "instance"
    /\ iirCoeffs' = <<>> /\ iirState' = <<>> /\ iirIn' = <<>> /\ iirOut' = <<>>
    /\ iirLast' = <<"none", 0>> /\ iirMade' = Unmade
    /\ UNCHANGED <<firVars, lmsVars, ownVars, exampleVars>>

LmsConstruct ==
    /\ Running /\ lmsMade = Unmade
    /\ \E c \in LmsCoeffSets \cup {<<>>}, B \in CtorBlockSizes, mu \in InitMus :
       \E T \in CtorCounts(c, Len(c)) :
         LET r == LMSFilterNew(c, T, mu, B)
         IN  IF r.outcome = "instance"
             THEN /\ lmsCoeffs' = r.coeffs
                  /\ lmsState' = r.state
                  /\ lmsMu' = mu
                  /\ lmsInstMu' = r.mu
                  /\ lmsBlock' = B
                  /\ lmsOOB' = r.oob
                  /\ lmsCall' = [op |-> "construct",
                                 pre |-> [coeffs |-> r.coeffs, state |-> r.state,
                                          mu |-> r.mu, getMu |-> mu, block |-> B],
                                 xs |-> <<>>, ds |-> <<>>, ys |-> <<>>,
                                 es |-> <<>>, log |-> <<>>, arg |-> <<>>,
                                 clob |-> Kept]
                  /\ lmsMade' = Made(CoeffsArg(c), T, B, "instance")
                  /\ UNCHANGED lmsCount
             ELSE /\ lmsMade' = Made(CoeffsArg(c), T, B, r.outcome)
                  /\ UNCHANGED <<lmsCoeffs, lmsState, lmsMu, lmsInstMu, lmsBlock,
                                 lmsCount, lmsOOB, lmsCall>>
    /\ UNCHANGED <<firVars, iirVars, ownVars, exampleVars>>

\* LMSFilter::~LMSFilter: delete[] _state.
LmsDestroy ==
    /\ Running /\ lmsMade.outcome = "instance"
    /\ lmsCoeffs' = <<>> /\ lmsState' = <<>> /\ lmsMu' = 0 /\ lmsInstMu' = 0
    /\ lmsBlock' = 0 /\ lmsCount' = 0 /\ lmsOOB' = FALSE
    /\ lmsCall' = [op |-> "none"] /\ lmsMade' = Unmade
    /\ UNCHANGED <<firVars, iirVars, ownVars, exampleVars>>

ConstructNext ==
    \/ FirConstruct \/ FirDestroy
    \/ IirConstruct \/ IirDestroy
    \/ LmsConstruct \/ LmsDestroy

InitNone == FirIdle /\ IirIdle /\ LmsIdle /\ OwnIdle /\ ExampleIdle
\* Instances of the three engines being constructed, with any arguments, and
\* destroyed.
SpecConstruct == InitNone /\ [][ConstructNext]_vars

InitEngines == InitFIR \/ InitIIR \/ InitLMS
EnginesNext == FirNext \/ IirNext \/ LmsNext
\* One instance, of any of the three engines, under any sequence of its
\* calls.
SpecEngines == InitEngines /\ [][EnginesNext]_vars

----------------------------------------------------------------------------
(* Claims about the FIR engine.                                            *)

\* x[j] of a stream, 0 before its first sample.
At(xs, j) == IF j >= 1 /\ j <= Len(xs) THEN xs[j] ELSE 0

RECURSIVE SumTo(_, _)
\* f[0] + ... + f[n]
SumTo(f, n) == IF n < 0 THEN 0 ELSE f[n] + SumTo(f, n - 1)

\* C1: FIR chunking equivalence.  However the stream is split into
\* processSample and processBuffer calls (any block length, also above the
\* configured block size), the outputs so far and the delay line are those
\* of feeding the same stream one sample at a time.
C1_FirChunkingEquivalence ==
    LET ref == FirBySamples(firCoeffs,
                            ZeroSeq(FirStateSize(Len(firCoeffs), firBlock)),
                            firIn, 1, <<>>)
    IN  /\ firOut = ref.out
        /\ FirHistory(firCoeffs, firState) = FirHistory(firCoeffs, ref.state)

\* The same equivalence for the runs in which no call went beyond the state
\* buffer (every block at most the configured block size).
FirChunkingEquivalenceInBounds == firOOB \/ C1_FirChunkingEquivalence

\* C4: FIR convolution.  On a fresh instance the n-th output is the sum
\* over k = 0..T-1 of coeff[k] * x[n-k]: coeff[0] weighs the newest sample.
C4_FirConvolution ==
    \A n \in 1..Len(firOut) :
        firOut[n] = SumTo([k \in 0..(Len(firCoeffs) - 1) |->
                              firCoeffs[k + 1] * At(firIn, n - k)],
                          Len(firCoeffs) - 1)

\* What arm_fir_f32 computes instead: coeff[T-1] weighs the newest sample.
FirConvolutionReversed ==
    \A n \in 1..Len(firOut) :
        firOut[n] = SumTo([k \in 0..(Len(firCoeffs) - 1) |->
                              firCoeffs[Len(firCoeffs) - k] * At(firIn, n - k)],
                          Len(firCoeffs) - 1)

\* The stream is a prefix of the unit impulse 1, 0, 0, ...
IsImpulse(xs) == \A i \in 1..Len(xs) : xs[i] = (IF i = 1 THEN 1 ELSE 0)

\* C5: FIR impulse response.  Fed 1, 0, 0, ... through processSample, a
\* fresh instance returns c[0], c[1], ..., c[T-1]: the coefficient array in
\* its stored order.
C5_FirImpulseResponse ==
    IsImpulse(firIn) =>
        \A i \in 1..Len(firOut) : i <= Len(firCoeffs) => firOut[i] = firCoeffs[i]


----------------------------------------------------------------------------
(* Claims about the IIR engine.                                            *)

\* C3: IIR block/sample equivalence.  However the stream is split into
\* processSample and processBuffer calls, the outputs so far and the whole
\* 4*S-cell state are those of feeding the stream one sample at a time.
C3_IirChunkingEquivalence ==
    LET ref == IirBySamples(iirCoeffs, ZeroSeq(IirStateSize(NumStages(iirCoeffs))),
                            iirIn, 1, <<>>)
    IN  /\ iirOut = ref.out
        /\ iirState = ref.state

\* A block of two or more samples has just gone through a cascade whose
\* state is not all zero, after an earlier call.
C3_Witness ==
    /\ iirLast[1] = "processBuffer" /\ iirLast[2] >= 2
    /\ Len(iirIn) > iirLast[2]
    /\ NumStages(iirCoeffs) = 2
    /\ \E i \in 1..Len(iirState) : iirState[i] # 0

\* C6: IIR section recurrence.  A single section {b0, b1, b2, a1, a2} gives
\* y = b0*x + b1*x1 + b2*x2 - a1*y1 - a2*y2 for every sample, the feedback
\* terms subtracted, and then holds x1 = x, x2 = old x1, y1 = y, y2 = old y1.
C6_IirSectionRecurrence ==
    NumStages(iirCoeffs) = 1 =>
        /\ \A n \in 1..Len(iirOut) :
               iirOut[n] = iirCoeffs[1] * At(iirIn, n)
                           + iirCoeffs[2] * At(iirIn, n - 1)
                           + iirCoeffs[3] * At(iirIn, n - 2)
                           - iirCoeffs[4] * At(iirOut, n - 1)
                           - iirCoeffs[5] * At(iirOut, n - 2)
        /\ iirState = <<At(iirIn, Len(iirIn)), At(iirIn, Len(iirIn) - 1),
                        At(iirOut, Len(iirOut)), At(iirOut, Len(iirOut) - 1)>>

\* What arm_biquad_cascade_df1_f32 computes instead: the feedback terms added.
IirSectionRecurrenceAdded ==
    NumStages(iirCoeffs) = 1 =>
        /\ \A n \in 1..Len(iirOut) :
               iirOut[n] = iirCoeffs[1] * At(iirIn, n)
                           + iirCoeffs[2] * At(iirIn, n - 1)
                           + iirCoeffs[3] * At(iirIn, n - 2)
                           + iirCoeffs[4] * At(iirOut, n - 1)
                           + iirCoeffs[5] * At(iirOut, n - 2)
        /\ iirState = <<At(iirIn, Len(iirIn)), At(iirIn, Len(iirIn) - 1),
                        At(iirOut, Len(iirOut)), At(iirOut, Len(iirOut) - 1)>>

\* Section s of the cascade run on its own, as a one-stage filter with the
\* coefficients coeffs[5(s-1) .. 5(s-1)+4] and a fresh 4-cell state, over the
\* whole output of section s - 1 (over the input stream for the first).
RECURSIVE SectionAlone(_, _, _)
SectionAlone(coeffs, xs, s) ==
    arm_biquad_cascade_df1_f32(SubSeq(coeffs, 5 * s - 4, 5 * s), ZeroSeq(4), 1,
                               IF s = 1 THEN xs ELSE SectionAlone(coeffs, xs, s - 1).out)

\* C7: IIR cascade ordering.  The samples pass through the sections in index
\* order, section i feeding section i + 1 and the last one giving the
\* output, and each section keeps its own 4 state cells and reads its own 5
\* coefficients.
C7_IirCascadeOrdering ==
    LET S == NumStages(iirCoeffs)
    IN  /\ iirOut = SectionAlone(iirCoeffs, iirIn, S).out
        /\ \A s \in 1..S :
               SubSeq(iirState, 4 * s - 3, 4 * s) = SectionAlone(iirCoeffs, iirIn, s).state

\* A two-section cascade has processed samples in more than one call and
\* its second section holds a nonzero output.
C7_Witness ==
    /\ NumStages(iirCoeffs) = 2
    /\ Len(iirIn) >= 3
    /\ iirLast[2] < Len(iirIn)
    /\ iirState[7] # 0
    /\ iirState[3] # iirState[7]

----------------------------------------------------------------------------
(* Claims about the LMS engine.                                            *)

\* w[1]*h[1] + ... + w[T]*h[T]
Dot(w, h) == SumTo([k \in 0..(Len(w) - 1) |-> w[k + 1] * h[k + 1]], Len(w) - 1)

\* The last call filtered samples.
LmsProcessed == lmsCall.op \in {"processSample", "processBuffer"}

\* The weights sample i of the last call was filtered with: those left by
\* sample i-1 of the same call, or those the call found.
LmsWeightsBefore(i) == IF i = 1 THEN lmsCall.pre.coeffs ELSE lmsCall.log[i - 1].w1

\* C2: LMS block processing is a sequential fold.  One processBuffer call
\* of length N gives the outputs, the errors, the weights and the delay line
\* of N processSample calls in index order.
C2_LmsBlockIsSequentialFold ==
    lmsCall.op = "processBuffer" =>
        LET ref == LmsBySamples(lmsCall.pre.coeffs, lmsCall.pre.state,
                                lmsCall.pre.mu, lmsCall.xs, lmsCall.ds, 1,
                                <<>>, <<>>)
        IN  /\ lmsCall.ys = ref.out
            /\ lmsCall.es = ref.err
            /\ lmsCoeffs = ref.coeffs
            /\ LmsHistory(lmsCoeffs, lmsState) = LmsHistory(lmsCoeffs, ref.state)

\* The same fold for the calls whose cells beyond the numTaps allocated ones
\* read back what was stored in them.
LmsBlockIsSequentialFoldKept ==
    lmsCall.clob = Kept => C2_LmsBlockIsSequentialFold

\* C8: LMS error output.  For every sample of a processSample or
\* processBuffer call the written error is the reference minus the written
\* output, and that output was computed with the weights as they were before
\* this sample updated them.
C8_LmsErrorOutput ==
    LmsProcessed =>
        /\ Len(lmsCall.ys) = Len(lmsCall.xs) /\ Len(lmsCall.es) = Len(lmsCall.xs)
        /\ \A i \in 1..Len(lmsCall.xs) :
             /\ lmsCall.es[i] = lmsCall.ds[i] - lmsCall.ys[i]
             /\ lmsCall.ys[i] = Dot(LmsWeightsBefore(i), lmsCall.log[i].win)

\* The second sample of a block was filtered with weights the first sample
\* had changed, and left a nonzero output and a nonzero error.
C8_Witness ==
    /\ lmsCall.op = "processBuffer" /\ Len(lmsCall.xs) >= 2
    /\ LmsWeightsBefore(2) # lmsCall.pre.coeffs
    /\ lmsCall.ys[2] # 0 /\ lmsCall.es[2] # 0
    /\ lmsCall.es[2] # lmsCall.ys[2] - lmsCall.ds[2]

\* C9: LMS weight update.  Every processed sample replaces w[k], k = 0..T-1,
\* in the caller's coefficient buffer by w[k] + mu * e * x[n-k]: w[0] moves
\* with the newest of the samples the output was computed from, w[T-1] with
\* the oldest.
C9_LmsWeightUpdate ==
    LmsProcessed =>
        /\ \A i \in 1..Len(lmsCall.xs) :
             LET T == Len(lmsCoeffs)
             IN  \A k \in 0..(T - 1) :
                   lmsCall.log[i].w1[k + 1] =
                       LmsWeightsBefore(i)[k + 1]
                       + lmsCall.pre.mu * lmsCall.es[i] * lmsCall.log[i].win[T - k]
        /\ lmsCoeffs = LmsWeightsBefore(Len(lmsCall.xs) + 1)

\* What arm_lms_f32 does instead: w[T-1] moves with the newest sample, w[0]
\* with the oldest, each weight with the cell it multiplied in the output.
LmsWeightUpdateReversed ==
    LmsProcessed =>
        /\ \A i \in 1..Len(lmsCall.xs) :
             LET T == Len(lmsCoeffs)
             IN  \A k \in 0..(T - 1) :
                   lmsCall.log[i].w1[k + 1] =
                       LmsWeightsBefore(i)[k + 1]
                       + lmsCall.pre.mu * lmsCall.es[i] * lmsCall.log[i].win[k + 1]
        /\ lmsCoeffs = LmsWeightsBefore(Len(lmsCall.xs) + 1)

\* C10: LMS step ordering.  Within one processSample(x, d) call the output
\* is computed from the weights and the delay line as the call found them;
\* x enters the delay line only after y, e and the weight update.
C10_LmsStepOrder ==
    lmsCall.op = "processSample" =>
        LET y == Dot(lmsCall.pre.coeffs, lmsCall.pre.state)
            e == lmsCall.ds[1] - y
        IN  /\ lmsCall.ys = <<y>>
            /\ lmsCall.es = <<e>>
            /\ lmsCoeffs = [k \in 1..Len(lmsCoeffs) |->
                               lmsCall.pre.coeffs[k]
                               + lmsCall.pre.mu * e * lmsCall.pre.state[k]]

\* C10, amended.  Within one processSample(x, d) call x is written into the
\* delay line first; y is computed from the weights the call found and the
\* T-1 past samples followed by x; e = d - y; every weight is updated with
\* that e and the same T samples; the delay line then holds the last T-1 of
\* them.
C10_LmsStepOrderAmended ==
    lmsCall.op = "processSample" =>
        LET T   == Len(lmsCoeffs)
            x   == lmsCall.xs[1]
            win == Append(SubSeq(lmsCall.pre.state, 1, T - 1), x)
            y   == Dot(lmsCall.pre.coeffs, win)
            e   == lmsCall.ds[1] - y
        IN  /\ lmsCall.ys = <<y>>
            /\ lmsCall.es = <<e>>
            /\ lmsCoeffs = [k \in 1..T |->
                               lmsCall.pre.coeffs[k] + lmsCall.pre.mu * e * win[k]]
            /\ lmsState = [i \in 1..T |-> IF i < T THEN win[i + 1] ELSE x]

\* A processSample call on a two-tap instance with past input, whose output
\* depends on the x of this call and whose error moved the weights.
C10_Witness ==
    /\ lmsCall.op = "processSample"
    /\ Len(lmsCoeffs) = 2
    /\ lmsCall.pre.state # ZeroSeq(2)
    /\ lmsCall.ys[1] # Dot(lmsCall.pre.coeffs, lmsCall.pre.state)
    /\ lmsCall.es[1] # 0
    /\ lmsCoeffs # lmsCall.pre.coeffs

\* C11: LMS resetCoefficients.  After resetCoefficients(v) the weights are
\* v, after resetCoefficients(nullptr) they are all 0; in both cases every
\* cell of the state buffer is 0, and the step size, the tap count and the
\* block size are what they were.
C11_LmsResetCoefficients ==
    lmsCall.op = "resetCoefficients" =>
        /\ lmsCoeffs = (IF lmsCall.arg # <<>> THEN lmsCall.arg
                        ELSE ZeroSeq(Len(lmsCall.pre.coeffs)))
        /\ lmsState = ZeroSeq(Len(lmsCall.pre.state))
        /\ Len(lmsCoeffs) = Len(lmsCall.pre.coeffs)
        /\ lmsMu = lmsCall.pre.getMu /\ lmsInstMu = lmsCall.pre.mu
        /\ lmsBlock = lmsCall.pre.block

\* resetCoefficients(v) hit an adapted two-tap instance: the weights were
\* not v, the delay line was not zero and the step size had been changed.
C11_Witness ==
    /\ lmsCall.op = "resetCoefficients" /\ lmsCall.arg # <<>>
    /\ Len(lmsCoeffs) = 2
    /\ lmsCall.pre.coeffs # lmsCall.arg
    /\ \A i \in 1..2 : lmsCall.pre.state[i] # 0
    /\ lmsCall.pre.mu = 2

\* C12: LMS reset correctness.  Whatever was processed or set before, a
\* processSample(x, d) call that immediately follows resetCoefficients(nullptr)
\* writes y = 0 and e = d.
C12_LmsResetThenSample ==
    [][(/\ lmsCall.op = "resetCoefficients" /\ lmsCall.arg = <<>>
        /\ lmsCall'.op = "processSample")
       => (lmsCall'.ys = <<0>> /\ lmsCall'.es = lmsCall'.ds)]_vars

\* A processSample call with a nonzero reference found all weights and the
\* whole delay line zero on an instance that had already processed a sample
\* (samples are never 0 here, so a reset with nullptr came in between).
C12_Witness ==
    /\ lmsCall.op = "processSample" /\ lmsCount >= 2
    /\ Len(lmsCoeffs) = 2
    /\ lmsCall.pre.coeffs = ZeroSeq(2) /\ lmsCall.pre.state = ZeroSeq(2)
    /\ lmsCall.ds[1] # 0 /\ lmsCall.ys = <<0>> /\ lmsCall.es = lmsCall.ds

\* The last n elements of a sequence.
LastN(xs, n) == SubSeq(xs, Len(xs) - n + 1, Len(xs))

\* C13: no implicit LMS reset.  A processSample or processBuffer call of
\* any length leaves the weights the per-sample updates over its own inputs
\* give, and a delay line that is the old one with the call's inputs shifted
\* in; a setMu call leaves weights and delay line as they were.
C13_NoImplicitLmsReset ==
    /\ LmsProcessed =>
         LET ref == LmsBySamples(lmsCall.pre.coeffs, lmsCall.pre.state,
                                 lmsCall.pre.mu, lmsCall.xs, lmsCall.ds, 1,
                                 <<>>, <<>>)
             T   == Len(lmsCoeffs)
         IN  /\ lmsCoeffs = ref.coeffs
             /\ LmsHistory(lmsCoeffs, lmsState) =
                    LastN(LmsHistory(lmsCall.pre.coeffs, lmsCall.pre.state)
                          \o lmsCall.xs, T - 1)
    /\ lmsCall.op = "setMu" =>
         /\ lmsCoeffs = lmsCall.pre.coeffs
         /\ lmsState = lmsCall.pre.state

\* The same for the calls whose cells beyond the numTaps allocated ones read
\* back what was stored in them.
LmsNoImplicitResetKept == lmsCall.clob = Kept => C13_NoImplicitLmsReset

\* C14: LMS setMu/getMu.  setMu(v) takes any v, leaves every weight and
\* every delay-line cell as it was and makes getMu() return v; every sample
\* processed afterwards, until the next setMu, updates the weights with
\* step size v.
C14_LmsSetMu ==
    /\ lmsCall.op = "setMu" =>
         /\ lmsMu = lmsCall.arg[1]
         /\ lmsCoeffs = lmsCall.pre.coeffs
         /\ lmsState = lmsCall.pre.state
    /\ LmsProcessed =>
         \A i \in 1..Len(lmsCall.xs) :
             lmsCall.log[i].w1 =
                 [k \in 1..Len(lmsCoeffs) |->
                     LmsWeightsBefore(i)[k]
                     + (lmsCall.es[i] * lmsMu) * lmsCall.log[i].win[k]]

\* A sample was processed with the step size 2 that only setMu can have
\* installed, its error was not 0 and the weights moved.
C14_Witness ==
    /\ lmsCall.op = "processSample"
    /\ lmsMu = 2
    /\ lmsCall.es[1] # 0
    /\ lmsCoeffs # lmsCall.pre.coeffs

----------------------------------------------------------------------------
(* Claims about the frame of the FIR and IIR calls.                        *)

\* C15: FIR and IIR coefficients are read-only.  No call writes the
\* caller's coefficient set, and a processing call changes nothing but the
\* instance's state buffer and the output it writes: in particular it
\* writes no cell outside the state buffer.
C15_CoefficientsReadOnly ==
    [][/\ firCoeffs' = firCoeffs
       /\ iirCoeffs' = iirCoeffs
       /\ ~firOOB']_vars

\* The coefficient part alone: the kernels only read through pCoeffs.
CoefficientsNeverWritten ==
    [][firCoeffs' = firCoeffs /\ iirCoeffs' = iirCoeffs]_vars

\* Every element of the sequence is 0.
AllZero(xs) == \A i \in 1..Len(xs) : xs[i] = 0

\* C16: zero input gives zero output.  A fresh FIR or IIR instance fed only
\* zeros, through processSample, processBuffer or any mix and any block
\* length, returns only zeros and keeps every state-buffer cell zero.
C16_ZeroInputZeroOutput ==
    /\ AllZero(firIn) => (AllZero(firOut) /\ AllZero(firState))
    /\ AllZero(iirIn) => (AllZero(iirOut) /\ AllZero(iirState))

\* The same for the runs in which no FIR call went beyond the state buffer.
ZeroInputZeroOutputInBounds == firOOB \/ C16_ZeroInputZeroOutput

----------------------------------------------------------------------------
(* Claims about construction.                                              *)

\* C17: state buffer at construction.  A newly constructed FIR instance has
\* a state buffer of exactly T + B - 1 cells, an IIR instance one of exactly
\* 4*S cells, an LMS instance one of exactly T cells, every cell zero.
C17_StateBufferAtConstruction ==
    /\ firMade.outcome = "instance" =>
         /\ Len(firState) = firMade.count + firMade.blockSize - 1
         /\ AllZero(firState)
    /\ iirMade.outcome = "instance" =>
         /\ Len(iirState) = 4 * iirMade.count
         /\ AllZero(iirState)
    /\ lmsMade.outcome = "instance" =>
         /\ Len(lmsState) = lmsMade.count
         /\ AllZero(lmsState)

\* The three engines constructed side by side: a three-tap FIR and a two-tap
\* LMS instance with block size 2 and a two-section IIR cascade.
C17_Witness ==
    /\ firMade = Made("array", 3, 2, "instance") /\ Len(firState) = 4
    /\ iirMade.outcome = "instance" /\ iirMade.count = 2 /\ Len(iirState) = 8
    /\ lmsMade = Made("array", 2, 2, "instance") /\ Len(lmsState) = 2

\* C18: state buffer length is fixed.  After any sequence of processSample,
\* processBuffer, setMu and resetCoefficients calls the state buffer of an
\* instance has the length the constructor gave it: T + B - 1 cells (FIR),
\* 4*S cells (IIR), T cells (LMS).
C18_StateBufferLengthFixed ==
    /\ FirLive => Len(firState) = FirStateSize(firMade.count, firMade.blockSize)
    /\ IirLive => Len(iirState) = IirStateSize(iirMade.count)
    /\ LmsLive => Len(lmsState) = LmsStateSize(lmsMade.count)

\* An FIR instance has been through a block longer than its block size,
\* after an earlier call.
C18_Witness ==
    /\ FirLive /\ firLast[1] = "processBuffer" /\ firLast[2] > firBlock
    /\ Len(firIn) > firLast[2]
    /\ Len(firCoeffs) = 3
    /\ Len(firState) = 3 + firBlock - 1

\* C19: FIR construction rejects bad sizes.  Constructing an FIR instance
\* with T = 0 or B = 0 fails and yields no instance that processSample or
\* processBuffer could run on.
C19_FirRejectsBadSizes ==
    (firMade # Unmade /\ (firMade.count = 0 \/ firMade.blockSize = 0))
        => ~FirLive

\* C20: configuration errors make the instance unusable.  For each engine,
\* construction with a null coefficient pointer, with zero sections (IIR) or
\* zero taps (LMS) leaves no instance to call processSample or processBuffer
\* on.
C20_ConfigErrorsLeaveNoInstance ==
    /\ (firMade # Unmade /\ firMade.coeffs = "null") => ~FirLive
    /\ (iirMade # Unmade /\ (iirMade.coeffs = "null" \/ iirMade.count = 0))
           => ~IirLive
    /\ (lmsMade # Unmade /\ (lmsMade.coeffs = "null" \/ lmsMade.count = 0))
           => ~LmsLive

\* What the constructors do instead: the only constructions that yield no
\* instance are those whose cell count wraps below zero, FIR (the
\* allocation) and LMS (the clearing) with T = 0 and B = 0; every other
\* argument combination yields a live instance.
OnlyWrappedSizeFails ==
    /\ firMade # Unmade =>
           (FirLive <=> ~(firMade.count = 0 /\ firMade.blockSize = 0))
    /\ iirMade # Unmade => IirLive
    /\ lmsMade # Unmade =>
           (LmsLive <=> ~(lmsMade.count = 0 /\ lmsMade.blockSize = 0))

----------------------------------------------------------------------------
(* Claims about the calls of all three engines.                            *)

\* C21: a zero-length block is a no-op.  A processBuffer call with length 0
\* on an FIR, IIR or LMS instance in any reachable state writes no output
\* or error element and leaves the state buffer, the coefficients or weights
\* and every scalar parameter as they were.
C21_ZeroLengthBlockIsNoOp ==
    [][/\ firLast' = <<"processBuffer", 0>> =>
            /\ firState' = firState /\ firCoeffs' = firCoeffs
            /\ firBlock' = firBlock /\ firOut' = firOut /\ firIn' = firIn
            /\ firOOB' = firOOB
       /\ iirLast' = <<"processBuffer", 0>> =>
            /\ iirState' = iirState /\ iirCoeffs' = iirCoeffs
            /\ iirOut' = iirOut /\ iirIn' = iirIn
       /\ (lmsCall'.op = "processBuffer" /\ lmsCall'.xs = <<>>) =>
            /\ lmsState' = lmsState /\ lmsCoeffs' = lmsCoeffs
            /\ lmsMu' = lmsMu /\ lmsInstMu' = lmsInstMu /\ lmsBlock' = lmsBlock
            /\ lmsCall'.ys = <<>> /\ lmsCall'.es = <<>>
            /\ lmsOOB' = lmsOOB]_vars

\* A zero-length block came after three samples on a three-tap FIR instance
\* whose delay line holds nonzero samples.
C21_Witness ==
    /\ firLast = <<"processBuffer", 0>>
    /\ Len(firCoeffs) = 3 /\ Len(firIn) = 3
    /\ firState[1] # 0 /\ firState[2] # 0

----------------------------------------------------------------------------
(* Two instances alive at once: a FIR instance and an IIR instance, each   *)
(* with its own state buffer from new[], called in any interleaving.       *)

\* Most samples the two instances are fed together.
MaxPairLen == 3

\* The samples arm_fir_f32 stores past the end of a state buffer of alloc
\* cells: sample n (from 0) goes to pState[numTaps - 1 + n].
FirOverflow(coeffs, alloc, src) ==
    [k \in 1..(Len(coeffs) + Len(src) - 1 - alloc) |->
        src[alloc + k - Len(coeffs) + 1]]

\* A buffer that starts where the overflowing stores land: its first cells
\* take the stored values.
Overwritten(mem, over) ==
    [i \in 1..Len(mem) |-> IF i <= Len(over) THEN over[i] ELSE mem[i]]

\* FIRFilter::processBuffer on the FIR instance while the IIR instance
\* lives.  Stores past the FIR state buffer land in whatever the heap holds
\* there: the IIR state buffer (beside), or something else.
PairFirProcessBuffer ==
    \E n \in 0..MaxBlock :
      /\ FirLive /\ IirLive
      /\ Len(firIn) + Len(iirIn) + n <= MaxPairLen
      /\ \E xs \in SeqsOfLen(Samples, n) :
         \E beside \in BOOLEAN :
         \E clob \in (IF Len(firCoeffs) + n - 1 > Len(firState) /\ ~beside
                      THEN {Kept} \cup Foreign ELSE {Kept}) :
           LET r    == FIRprocessBuffer(firCoeffs, firState, xs, clob)
               over == FirOverflow(firCoeffs, Len(firState), xs)
           IN  /\ firState' = r.state
               /\ firIn' = firIn \o xs
               /\ firOut' = firOut \o r.out
               /\ firOOB' = (firOOB \/ r.oob)
               /\ iirState' = IF beside THEN Overwritten(iirState, over)
                              ELSE iirState
      /\ firLast' = <<"processBuffer", n>>
      /\ UNCHANGED <<firCoeffs, firBlock, firMade, iirCoeffs, iirIn, iirOut,
                     iirLast, iirMade, lmsVars, ownVars, exampleVars>>

PairFirProcessSample ==
    /\ IirLive
    /\ Len(firIn) + Len(iirIn) < MaxPairLen
    /\ FirProcessSample

PairIirProcessSample ==
    /\ FirLive
    /\ Len(firIn) + Len(iirIn) < MaxPairLen
    /\ IirProcessSample

PairIirProcessBuffer ==
    /\ FirLive
    /\ IirProcessBuffer
    /\ Len(firIn) + Len(iirIn') <= MaxPairLen

PairNext ==
    \/ PairFirProcessSample \/ PairFirProcessBuffer
    \/ PairIirProcessSample \/ PairIirProcessBuffer

\* The two constructor calls: a one- or two-tap FIR instance, then a
\* one-section IIR instance.
InitPair ==
    /\ FirInit /\ Len(firCoeffs) <= 2
    /\ IirInit /\ NumStages(iirCoeffs) = 1
    /\ LmsIdle /\ OwnIdle /\ ExampleIdle
\* A FIR and an IIR instance under any interleaving of their processing
\* calls.
SpecPair == InitPair /\ [][PairNext]_vars

----------------------------------------------------------------------------
(* Claims about two instances.                                             *)

\* C22: two distinct instances are independent.  A step that is not a call
\* on the IIR instance leaves its state buffer, outputs and coefficients as
\* they were, and a step that is not a call on the FIR instance leaves the
\* FIR instance's; so each instance computes what it would compute alone.
C22_InstanceIndependence ==
    [][/\ iirIn' = iirIn =>
            /\ iirState' = iirState /\ iirOut' = iirOut
            /\ iirCoeffs' = iirCoeffs
       /\ firIn' = firIn =>
            /\ firState' = firState /\ firOut' = firOut
            /\ firCoeffs' = firCoeffs]_vars

\* The same, for the steps up to the first FIR call that runs past its
\* state buffer.
InstanceIndependenceInBounds ==
    [][~firOOB' =>
         /\ iirIn' = iirIn =>
              /\ iirState' = iirState /\ iirOut' = iirOut
              /\ iirCoeffs' = iirCoeffs
         /\ firIn' = firIn =>
              /\ firState' = firState /\ firOut' = firOut
              /\ firCoeffs' = firCoeffs]_vars

----------------------------------------------------------------------------
(* A FIR call step by step: the call is entered, the block loop of         *)
(* arm_fir_f32 runs once per sample, the tail copy is done and the call    *)
(* returns.  While a call is in progress firLast is <<"in " \o op, N, n>>, *)
(* n the samples done, and firState shows the cells from pState on,        *)
(* those past the allocation included.                                     *)

FirInCall == firLast[1] \in {"in processSample", "in processBuffer"}
\* A call that was entered and has not returned.
FirCallOpen == FirInCall \/ firLast[1] = "fault"

\* FIRFilter::processSample is entered with one sample.
FirEnterProcessSample ==
    /\ FirLive /\ ~FirCallOpen
    /\ Len(firIn) < MaxLen
    /\ \E x \in Samples : firIn' = Append(firIn, x)
    /\ firLast' = <<"in processSample", 1, 0>>
    /\ UNCHANGED <<firCoeffs, firBlock, firState, firOut, firOOB, firMade,
                   iirVars, lmsVars, ownVars, exampleVars>>

\* FIRFilter::processBuffer is entered with an array of `length` samples.
FirEnterProcessBuffer ==
    \E n \in 0..MaxBlock :
      /\ FirLive /\ ~FirCallOpen
      /\ Len(firIn) + n <= MaxLen
      /\ \E xs \in SeqsOfLen(Samples, n) : firIn' = firIn \o xs
      /\ firLast' = <<"in processBuffer", n, 0>>
      /\ UNCHANGED <<firCoeffs, firBlock, firState, firOut, firOOB, firMade,
                     iirVars, lmsVars, ownVars, exampleVars>>

\* One pass of the block loop (while (blkCnt > 0U)): sample n of the block
\* is stored in pState[numTaps - 1 + n] and one output is computed.
FirBlockLoop ==
    /\ FirInCall /\ firLast[3] < firLast[2]
    /\ LET T     == Len(firCoeffs)
           alloc == FirStateSize(T, firBlock)
           n     == firLast[3]
           x     == firIn[Len(firIn) - firLast[2] + n + 1]
       IN  \E clob \in (IF T + n > alloc THEN {Kept} \cup Foreign ELSE {Kept}) :
             LET mem1 == Poke(firState, T + n, Stored(T + n, alloc, x, clob))
             IN  /\ firState' = mem1
                 /\ firOut' = Append(firOut, MacLoop(mem1, firCoeffs, n + 1, 1, T, 0))
                 /\ firOOB' = (firOOB \/ T + n > alloc)
    /\ firLast' = <<firLast[1], firLast[2], firLast[3] + 1>>
    /\ UNCHANGED <<firCoeffs, firBlock, firIn, firMade, iirVars, lmsVars, ownVars, exampleVars>>

\* The store of the block loop goes past the allocated cells and hits an
\* address the process may not write: the call is stopped there and never
\* returns.
FirStoreFaults ==
    /\ FirInCall /\ firLast[3] < firLast[2]
    /\ Len(firCoeffs) + firLast[3] > FirStateSize(Len(firCoeffs), firBlock)
    /\ firLast' = <<"fault", firLast[2], firLast[3]>>
    /\ firOOB' = TRUE
    /\ UNCHANGED <<firCoeffs, firBlock, firState, firIn, firOut, firMade,
                   iirVars, lmsVars, ownVars, exampleVars>>

\* blkCnt is 0: the history is copied to the start of the state buffer and
\* the call returns.
FirReturn ==
    /\ FirInCall /\ firLast[3] = firLast[2]
    /\ LET T     == Len(firCoeffs)
           alloc == FirStateSize(T, firBlock)
           mem2  == TailCopy(firState, firLast[2] + 1, 1, T - 1)
       IN  firState' = [i \in 1..alloc |-> mem2[i]]
    /\ firLast' = <<IF firLast[1] = "in processSample" THEN "processSample"
                    ELSE "processBuffer", firLast[2]>>
    /\ UNCHANGED <<firCoeffs, firBlock, firIn, firOut, firOOB, firMade,
                   iirVars, lmsVars, ownVars, exampleVars>>

FirStepsNext ==
    \/ FirEnterProcessSample \/ FirEnterProcessBuffer
    \/ FirBlockLoop \/ FirStoreFaults \/ FirReturn

\* The FIR instance under any sequence of calls, each followed through its
\* block loop.
SpecFIRSteps == InitFIR /\ [][FirStepsNext]_vars

----------------------------------------------------------------------------
(* Claims about calls in progress.                                         *)

\* C23: processing calls terminate.  A call that was entered and has not
\* returned can always take its next step (nothing blocks or stops it), and
\* a call that has returned has produced one output per sample handed in:
\* exactly N for processBuffer, 1 for processSample.
C23_CallsTerminate ==
    /\ FirCallOpen => ENABLED (FirBlockLoop \/ FirReturn)
    /\ FirInCall => firLast[3] <= firLast[2]
    /\ ~FirCallOpen => Len(firOut) = Len(firIn)

\* The same, as long as no call has run past the state buffer.
CallsTerminateInBounds ==
    ~firOOB =>
       /\ FirCallOpen => ENABLED (FirBlockLoop \/ FirReturn)
       /\ FirInCall => firLast[3] <= firLast[2]
       /\ ~FirCallOpen => Len(firOut) = Len(firIn)

----------------------------------------------------------------------------
(* Fixed point for the two reference runs.  A float32_t product a * b is   *)
(* a * b / 10^6 on integers, one factor in millionths, rounded to the      *)
(* nearest integer; a multiply-accumulate chain is rounded once.  Every    *)
(* factor is split at 1000 so that no partial sum leaves 32 bits.          *)

\* a \div b rounded to the nearest integer, b > 0.
RoundDiv(a, b) == (2 * a + b) \div (2 * b)

\* acc += a[k] * b[k] over all k, as the kernels' multiply-accumulate loops
\* do it, brought back from 10^-12 to 10^-6.
RECURSIVE MicroSum(_, _, _, _, _, _)
MicroSum(a, b, k, hi, mid, lo) ==
    IF k > Len(a)
    THEN hi + (mid + (lo + 500000) \div 1000) \div 1000
    ELSE LET ah == a[k] \div 1000
             al == a[k] % 1000
             bh == b[k] \div 1000
             bl == b[k] % 1000
         IN  MicroSum(a, b, k + 1, hi + ah * bh, mid + ah * bl + al * bh,
                      lo + al * bl)

MicroDot(a, b) == MicroSum(a, b, 1, 0, 0, 0)
MicroMul(a, b) == MicroDot(<<a>>, <<b>>)

Abs(v) == IF v < 0 THEN -v ELSE v

----------------------------------------------------------------------------
(* The high-pass section of IIR_Example in an IIRFilter of one stage, fed  *)
(* by its caller one sample at a time: the coefficients in millionths, the *)
(* samples and the state in thousandths.                                   *)

\* Longest sample stream fed to the reference section.
MaxRefLen == 6

\* highpassCoeffs = {0.99778102, -1.99556205, 0.99778102, -1.99555712,
\* 0.99556697}, in millionths, in the order the example passes them.
HighpassCoeffs == <<997781, -1995562, 997781, -1995557, 995567>>
\* The same section with the feedback coefficients negated.
HighpassCoeffsNegated == <<997781, -1995562, 997781, 1995557, -995567>>

\* The largest amplitude of the caller's samples: 200, in thousandths.
RefAmplitude == 200000

\* The input argument of IIRFilter::processSample: what the caller hands
\* in, here the extremes of the amplitude range, its middle and half of it.
\* (The stream IIR_Example itself generates, two sines and noise of
\* amplitude 100 + 80 + 5, lies inside this range.)
RefSamples == {-RefAmplitude, 0, RefAmplitude \div 2, RefAmplitude}

\* IIRFilter::processSample on a one-section instance:
\* acc = b0*Xn + b1*Xn1 + b2*Xn2 + a1*Yn1 + a2*Yn2;
\* Xn2 = Xn1, Xn1 = Xn, Yn2 = Yn1, Yn1 = acc.
IIRprocessSampleMilli(coeffs, state, input) ==
    LET acc == MicroDot(coeffs, <<input, state[1], state[2], state[3], state[4]>>)
    IN  [state |-> <<input, state[1], acc, state[3]>>, out |-> <<acc>>]

\* IIRFilter(coeffs, 1, 1) on the section, as IIR_Example constructs it
\* (or on the section with a1, a2 negated).
InitIIRRef ==
    /\ iirCoeffs \in {HighpassCoeffs, HighpassCoeffsNegated}
    /\ iirState = ZeroSeq(IirStateSize(NumStages(iirCoeffs)))
    /\ iirIn = <<>>
    /\ iirOut = <<>>
    /\ iirLast = <<"construct", 0>>
    /\ iirMade = Made("array", NumStages(iirCoeffs), 1, "instance")
    /\ FirIdle /\ LmsIdle /\ OwnIdle /\ ExampleIdle

\* One processSample call with a sample of the caller's choice.
IirRefProcessSample ==
    /\ IirLive
    /\ Len(iirIn) < MaxRefLen
    /\ \E x \in RefSamples :
         LET r == IIRprocessSampleMilli(iirCoeffs, iirState, x)
         IN  /\ iirState' = r.state
             /\ iirIn' = Append(iirIn, x)
             /\ iirOut' = Append(iirOut, r.out[1])
    /\ iirLast' = <<"processSample", 1>>
    /\ UNCHANGED <<iirCoeffs, iirMade, firVars, lmsVars, ownVars, exampleVars>>

\* The reference section under any caller that feeds it one sample at a
\* time, each of amplitude at most RefAmplitude.
SpecIIRRef == InitIIRRef /\ [][IirRefProcessSample]_vars

\* C24: the reference high-pass section, its coefficients passed in the
\* order {b0, b1, b2, a1, a2} of the example, gives bounded output on
\* inputs of amplitude at most 200: no output beyond ten times that
\* amplitude.
C24_IirReferenceStable ==
    iirCoeffs = HighpassCoeffs =>
        \A i \in 1..Len(iirOut) : Abs(iirOut[i]) <= 10 * RefAmplitude

\* With the feedback coefficients negated the outputs stay within twice the
\* input amplitude.
IirReferenceStableNegated ==
    iirCoeffs = HighpassCoeffsNegated =>
        \A i \in 1..Len(iirOut) : Abs(iirOut[i]) <= 2 * RefAmplitude

----------------------------------------------------------------------------
(* The interference canceller of LMS_Example: setup() and loop(), with     *)
(* samples, weights and the step size in millionths.                       *)

\* Longest run of the example's loop.
MaxRunLen == 10000

\* NUM_TAPS_LMS, and the zero weights setup() starts from
\* (lmsCoefficients[i] = 0.0f).
NumTapsLms == 32
RefTaps == ZeroSeq(NumTapsLms)
\* MU_ADAPTATION = 0.02f.
RefMu == 20000
\* SAMPLING_FREQ = 1000.0f and POWERLINE_FREQ = 60.0f, in Hz.
SamplingFreq == 1000
PowerlineFreq == 60
\* INTERFERENCE_BASE_AMP = 0.3f and INTERFERENCE_VAR_AMP = 0.2f.
InterferenceBaseAmp == 300000
InterferenceVarAmp == 200000
\* The step sizes loop() alternates between, 0.005f and 0.03f, and the
\* 0.01f it compares getMu() with.
MuSlow == 5000
MuFast == 30000
MuThreshold == 10000

\* The first quarter of the sine table arm_sin_f32 interpolates in:
\* sin(2 pi i / 512) for i = 0 .. 128.
SinQuarter ==
    <<
      0, 12272, 24541, 36807, 49068, 61321, 73565, 85797,
      98017, 110222, 122411, 134581, 146730, 158858, 170962, 183040,
      195090, 207111, 219101, 231058, 242980, 254866, 266713, 278520,
      290285, 302006, 313682, 325310, 336890, 348419, 359895, 371317,
      382683, 393992, 405241, 416430, 427555, 438616, 449611, 460539,
      471397, 482184, 492898, 503538, 514103, 524590, 534998, 545325,
      555570, 565732, 575808, 585798, 595699, 605511, 615232, 624859,
      634393, 643832, 653173, 662416, 671559, 680601, 689541, 698376,
      707107, 715731, 724247, 732654, 740951, 749136, 757209, 765167,
      773010, 780737, 788346, 795837, 803208, 810457, 817585, 824589,
      831470, 838225, 844854, 851355, 857729, 863973, 870087, 876070,
      881921, 887640, 893224, 898674, 903989, 909168, 914210, 919114,
      923880, 928506, 932993, 937339, 941544, 945607, 949528, 953306,
      956940, 960431, 963776, 966976, 970031, 972940, 975702, 978317,
      980785, 983105, 985278, 987301, 989177, 990903, 992480, 993907,
      995185, 996313, 997290, 998118, 998795, 999322, 999699, 999925,
      1000000
    >>

\* Entry i of the 512-step table, from the quarter by symmetry.
SinTable(i) ==
    LET j == i % 512
    IN  IF j <= 128 THEN SinQuarter[j + 1]
        ELSE IF j <= 256 THEN SinQuarter[256 - j + 1]
        ELSE IF j <= 384 THEN -SinQuarter[j - 256 + 1]
        ELSE -SinQuarter[512 - j + 1]

\* arm_sin_f32 at num / den turns: the fraction of the turn picks a table
\* step, and the value is interpolated linearly between it and the next.
ArmSin(num, den) ==
    LET p     == num % den
        index == (512 * p) \div den
        fract == (512 * p) % den
    IN  SinTable(index)
          + RoundDiv((SinTable(index + 1) - SinTable(index)) * fract, den)

\* waveformsTable[4] of Waveforms.h, the 12-bit ECG samples setup() reads:
\* a table at full scale throughout, and one that alternates between the
\* two ends of the 12-bit range.
Waveforms == {<<4096>>, <<4095, 0>>}

\* setup(): ecgCleanSignal[i] = (waveformsTable[4][i] - 2048) / 2048
\* * ECG_AMPLITUDE.
EcgClean(raw) == RoundDiv((raw - 2048) * 15625, 32)

\* LMSFilter::processSample: the sample is stored, y is the product of the
\* window and the weights, e = reference - y, w = e * mu, every weight
\* gains w times its cell, and the window moves on by one cell.
LMSprocessSampleMicro(coeffs, state, mu, input, reference) ==
    LET T       == Len(coeffs)
        mem1    == LmsStoreSample(state, T, 0, Len(state), input, Kept)
        win     == LmsWindow(mem1, T, 0)
        acc     == MicroDot(win, coeffs)
        e       == LmsError(reference, acc)
        w       == MicroMul(e, mu)
        coeffs1 == [k \in 1..T |-> coeffs[k] + MicroMul(w, win[k])]
        mem2    == TailCopy(mem1, 2, 1, T - 1)
    IN  [state |-> mem2, coeffs |-> coeffs1, out |-> <<acc>>, err |-> <<e>>]

\* setup(): the weights are zeroed, the ECG table is converted, and
\* powerlineFilter = new LMSFilter(lmsCoefficients, NUM_TAPS_LMS,
\* MU_ADAPTATION, BLOCK_SIZE).
InitLMSRef ==
    /\ lmsCoeffs = RefTaps
    /\ lmsBlock = 1
    /\ lmsMu = RefMu
    /\ lmsInstMu = lmsMu
    /\ lmsState = ZeroSeq(LmsStateSize(Len(lmsCoeffs)))
    /\ lmsCount = 0
    /\ lmsOOB = LmsInitOOB(Len(lmsCoeffs), lmsBlock)
    /\ lmsCall = [op |-> "construct", clean |-> 0, xs |-> <<>>, ds |-> <<>>,
                  ys |-> <<>>, es |-> <<>>]
    /\ lmsMade = Made("array", Len(lmsCoeffs), lmsBlock, "instance")
    /\ \E table \in Waveforms :
         ecgCleanSignal = [i \in 1..Len(table) |-> EcgClean(table[i])]
    /\ ecgSampleIndex = 0
    /\ sampleCounter = 0
    /\ FirIdle /\ IirIdle /\ OwnIdle

\* loop(): the clean sample plus the 60 Hz interference, whose amplitude
\* swings slowly around its base, is handed in as input and the 60 Hz sine
\* as reference; the counters move on; every 5 * SAMPLING_FREQ samples the
\* step size is switched with setMu.
LmsRefLoop ==
    /\ LmsLive
    /\ sampleCounter < MaxRunLen
    /\ LET cleanECG == ecgCleanSignal[ecgSampleIndex + 1]
           interferenceAmplitude ==
               InterferenceBaseAmp
                 + MicroMul(InterferenceVarAmp,
                            ArmSin(sampleCounter, 10 * SamplingFreq))
           interferenceReference ==
               ArmSin(PowerlineFreq * sampleCounter, SamplingFreq)
           powerlineInterference ==
               MicroMul(interferenceAmplitude, interferenceReference)
           contaminatedECG == cleanECG + powerlineInterference
           r == LMSprocessSampleMicro(lmsCoeffs, lmsState, lmsInstMu,
                                      contaminatedECG, interferenceReference)
           newMu == IF lmsMu > MuThreshold THEN MuSlow ELSE MuFast
       IN  /\ lmsCoeffs' = r.coeffs
           /\ lmsState' = r.state
           /\ lmsCall' = [op |-> "processSample", clean |-> cleanECG,
                          xs |-> <<contaminatedECG>>,
                          ds |-> <<interferenceReference>>,
                          ys |-> r.out, es |-> r.err]
           /\ IF (sampleCounter + 1) % (5 * SamplingFreq) = 0
              THEN lmsMu' = newMu /\ lmsInstMu' = newMu
              ELSE UNCHANGED <<lmsMu, lmsInstMu>>
    /\ lmsCount' = lmsCount + 1
    /\ sampleCounter' = sampleCounter + 1
    /\ ecgSampleIndex' = (ecgSampleIndex + 1) % Len(ecgCleanSignal)
    /\ UNCHANGED <<ecgCleanSignal, lmsBlock, lmsOOB, lmsMade, firVars, iirVars,
                   ownVars>>

\* The example: setup(), then loop() once per sample period.
SpecLMSRef == InitLMSRef /\ [][LmsRefLoop]_vars

\* C25: the canceller converges and does not diverge.  From sample 500 on
\* the magnitude of the adaptation error is that of the clean signal, within
\* a factor of two; and no output, error or weight grows beyond a hundred
\* times the signal amplitudes.
C25_LmsConverges ==
    lmsCall.op = "processSample" =>
        /\ lmsCount >= 500 =>
              /\ 2 * Abs(lmsCall.es[1]) >= Abs(lmsCall.clean)
              /\ Abs(lmsCall.es[1]) <= 2 * Abs(lmsCall.clean)
        /\ Abs(lmsCall.ys[1]) <= 100 * 1000000
        /\ Abs(lmsCall.es[1]) <= 100 * 1000000
        /\ \A k \in 1..Len(lmsCoeffs) : Abs(lmsCoeffs[k]) <= 100 * 1000000

\* What the calls of the example give: the error is reference - output,
\* and from sample 500 on it stays below half the clean signal's magnitude;
\* outputs, errors and weights stay small.
LmsErrorBelowClean ==
    lmsCall.op = "processSample" =>
        /\ lmsCount >= 500 => 2 * Abs(lmsCall.es[1]) < Abs(lmsCall.clean)
        /\ Abs(lmsCall.ys[1]) <= 2 * 1000000
        /\ Abs(lmsCall.es[1]) <= 2 * 1000000
        /\ \A k \in 1..Len(lmsCoeffs) : Abs(lmsCoeffs[k]) <= 1000000

----------------------------------------------------------------------------
(* Claims about the cells of the state buffers the calls touch.            *)

\* The cells of the state buffer (counted from 1) a FIR call of n samples
\* touches: the block is stored from cell numTaps on, and the history is
\* read and copied back below it.
FirCellsTouched(numTaps, n) == numTaps + n - 1

\* C26: every FIR call, of any length, N > B included, reads and writes the
\* state buffer only inside the numTaps + blockSize - 1 cells allocated at
\* construction.
C26_FirStateBufferBounds ==
    firLast[1] \in {"processSample", "processBuffer"} =>
        /\ FirCellsTouched(Len(firCoeffs), firLast[2]) <= Len(firState)
        /\ ~firOOB

\* The same for the calls of at most blockSize samples.
FirStateBufferBoundsWithinBlock ==
    (firLast[1] \in {"processSample", "processBuffer"} /\ firLast[2] <= firBlock) =>
        FirCellsTouched(Len(firCoeffs), firLast[2]) <= Len(firState)

\* The cells of the state buffer (counted from 1) an LMS call of n samples
\* touches.
LmsCellsTouched(numTaps, n) == numTaps + n - 1

\* C27: every LMS call, of any length N >= 0, N >= 2 included, reads and
\* writes the state buffer only inside the numTaps cells allocated at
\* construction.
C27_LmsStateBufferBounds ==
    lmsCall.op \in {"processSample", "processBuffer"} =>
        LmsCellsTouched(Len(lmsCoeffs), Len(lmsCall.xs)) <= Len(lmsState)

\* The same for the calls of at most one sample.
LmsStateBufferBoundsOneSample ==
    (lmsCall.op \in {"processSample", "processBuffer"} /\ Len(lmsCall.xs) <= 1) =>
        LmsCellsTouched(Len(lmsCoeffs), Len(lmsCall.xs)) <= Len(lmsState)

----------------------------------------------------------------------------
(* Filter objects and the arrays they point to.  The three classes hold    *)
(* the state buffer in a plain pointer, _state, set by the constructor     *)
(* from new[] and handed to delete[] by the destructor; they declare no    *)
(* copy constructor and no assignment operator, so the compiler's member   *)
(* by member ones apply.                                                   *)

\* Most filter objects alive at once, most arrays ever allocated, and most
\* copies and assignments made.
MaxObjects == 2
MaxBuffers == 3
MaxCopies == 2

ObjectNames == 1..MaxObjects
Classes == {"FIRFilter", "IIRFilter", "LMSFilter"}

\* ownObjects with the object o set to rec, and with o gone.
WithObject(o, rec) ==
    [p \in (DOMAIN ownObjects) \cup {o} |-> IF p = o THEN rec ELSE ownObjects[p]]
WithoutObject(o) ==
    [p \in (DOMAIN ownObjects) \ {o} |-> ownObjects[p]]

\* The constructor: _state = new float32_t[...]().
OwnConstruct ==
    \E o \in ObjectNames \ DOMAIN ownObjects, cls \in Classes :
      /\ Len(ownBuffers) < MaxBuffers
      /\ ownBuffers' = Append(ownBuffers, [releases |-> 0, usedReleased |-> FALSE])
      /\ ownObjects' = WithObject(o, [class |-> cls, state |-> Len(ownBuffers) + 1])
      /\ UNCHANGED <<ownCopied, firVars, iirVars, lmsVars, exampleVars>>

\* The implicit copy constructor (FIRFilter b(a); a filter passed by value):
\* every member is copied, the pointer _state with them.
OwnCopyConstruct ==
    \E o \in ObjectNames \ DOMAIN ownObjects, p \in DOMAIN ownObjects :
      /\ ownCopied < MaxCopies
      /\ ownObjects' = WithObject(o, ownObjects[p])
      /\ ownCopied' = ownCopied + 1
      /\ UNCHANGED <<ownBuffers, firVars, iirVars, lmsVars, exampleVars>>

\* The implicit assignment operator (b = a): every member is overwritten,
\* the pointer _state with them; the array b pointed to is not released.
OwnAssign ==
    \E o \in DOMAIN ownObjects, p \in DOMAIN ownObjects :
      /\ o # p
      /\ ownObjects[o].class = ownObjects[p].class
      /\ ownCopied < MaxCopies
      /\ ownObjects' = WithObject(o, ownObjects[p])
      /\ ownCopied' = ownCopied + 1
      /\ UNCHANGED <<ownBuffers, firVars, iirVars, lmsVars, exampleVars>>

\* processSample or processBuffer on the object o: the kernel reads and
\* writes the array _state points to, released or not.
OwnProcess ==
    \E o \in DOMAIN ownObjects :
      LET b == ownObjects[o].state
      IN  /\ ownBuffers' = [ownBuffers EXCEPT
                              ![b].usedReleased = @ \/ ownBuffers[b].releases > 0]
          /\ UNCHANGED <<ownObjects, ownCopied, firVars, iirVars, lmsVars, exampleVars>>

\* The destructor: delete[] _state.
OwnDestroy ==
    \E o \in DOMAIN ownObjects :
      LET b == ownObjects[o].state
      IN  /\ ownBuffers' = [ownBuffers EXCEPT ![b].releases = @ + 1]
          /\ ownObjects' = WithoutObject(o)
          /\ UNCHANGED <<ownCopied, firVars, iirVars, lmsVars, exampleVars>>

OwnNext ==
    \/ OwnConstruct \/ OwnCopyConstruct \/ OwnAssign
    \/ OwnProcess \/ OwnDestroy

\* Filter objects constructed, copied, assigned, used and destroyed.
SpecOwnership == InitNone /\ [][OwnNext]_vars

\* The objects whose _state points to the array b.
Holders(b) == {o \in DOMAIN ownObjects : ownObjects[o].state = b}

\* C28: exclusive ownership of the state buffer.  No two live objects point
\* to the same array; an array a live object points to has not been
\* released, and no call has used a released array; an array no live object
\* points to has been released exactly once.
C28_ExclusiveOwnership ==
    \A b \in 1..Len(ownBuffers) :
      /\ Cardinality(Holders(b)) <= 1
      /\ Holders(b) # {} => ownBuffers[b].releases = 0
      /\ Holders(b) = {} => ownBuffers[b].releases = 1
      /\ ~ownBuffers[b].usedReleased

\* The same as long as no object has been copied or assigned.
ExclusiveOwnershipWithoutCopies == ownCopied > 0 \/ C28_ExclusiveOwnership

----------------------------------------------------------------------------
(* Claims about the LMS step size.                                         *)

\* C29: step-size consistency.  In every state after construction, whatever
\* calls were made, getMu() (the wrapper's _mu) equals the step size held by
\* the kernel instance, the one the next processed sample uses; and the
\* samples of the last call were processed with the value getMu() returned
\* before it.
C29_StepSizeConsistent ==
    LmsLive =>
        /\ lmsMu = lmsInstMu
        /\ LmsProcessed =>
             \A i \in 1..Len(lmsCall.log) : lmsCall.log[i].mu = lmsCall.pre.getMu

\* A block was processed after setMu(2), on weights a reset had installed.
C29_Witness ==
    /\ lmsCall.op = "processBuffer" /\ Len(lmsCall.log) = 2
    /\ lmsMu = 2 /\ lmsInstMu = 2
    /\ lmsCall.pre.coeffs \in LmsResetSets

\* C30: LMS with zero step size is a fixed FIR.  A call made while mu = 0
\* leaves every weight as it was; its outputs are those of the fixed FIR
\* filter with these weights fed the same samples on the same delay line;
\* and e = d - y is reported for every sample.
C30_LmsZeroMuIsFixedFir ==
    (LmsProcessed /\ lmsCall.pre.mu = 0) =>
        /\ lmsCoeffs = lmsCall.pre.coeffs
        /\ lmsCall.ys = FirBySamples(lmsCall.pre.coeffs, lmsCall.pre.state,
                                     lmsCall.xs, 1, <<>>).out
        /\ \A i \in 1..Len(lmsCall.xs) :
               lmsCall.es[i] = lmsCall.ds[i] - lmsCall.ys[i]

\* The same for the calls whose cells beyond the state buffer read back
\* what was stored there.
LmsZeroMuIsFixedFirKept == lmsCall.clob = Kept => C30_LmsZeroMuIsFixedFir

============================================================================
